---------------------------- MODULE Spec2Model ----------------------------
(***************************************************************************)
(* A model of backend/quantum_optimizer.py: QuantumFactoryScheduler.       *)
(*                                                                         *)
(* Conventions of the encoding                                             *)
(*  - Python lists and numpy vectors are TLA+ sequences: the Python index  *)
(*    k is the TLA+ index k + 1.  Dictionaries are functions.              *)
(*  - The QUBO matrix holds floats such as time / time_slots.  The model   *)
(*    keeps every entry multiplied by time_slots (QScale), which makes all *)
(*    entries integers: 12 / duration is an integer for the durations 1..4 *)
(*    the generator draws.                                                 *)
(*  - An entry v of a solution vector stands for the real v / Unit, so the  *)
(*    vectors range over {0, 1/2, 1}; a parameter of the variational       *)
(*    optimizer is -1 or 0 in the same unit.                               *)
(*  - efficiency, utilization and objective_score are kept as numerators:  *)
(*    efficiency over time_slots, utilization over num_machines *          *)
(*    time_slots, objective_score over 10 * num_machines * time_slots.     *)
(***************************************************************************)
EXTENDS Integers, Sequences, FiniteSets, TLC

\* ------------------------------------------------------------------ bounds

\* Largest num_tasks, num_machines, time_slots a scheduler is built with.
MaxTasks == 2
MaxMachines == 2
MaxSlots == 3
\* Dimensions go down to -NegDims (argparse accepts any int).
NegDims == 1
\* Largest num_tasks * num_machines * time_slots of an instance.
MaxQubits == 8
\* A solution vector has at most MaxHot non-zero entries.
MaxHot == 2
\* Largest num_tasks and num_machines setup_problem is called with.
SetupTasks == 6
SetupMachines == 5
\* Largest num_tasks * num_machines * time_slots of an instance whose matrix
\* alone is built.
QuboQubits == 12
\* Largest number of entries of a job registry of the API.
MaxJobs == 2
\* Largest 'iterations' of a training request.
MaxIterations == 2
\* Largest max_steps of a FactoryEnv, and the most step() calls made between
\* two resets.
MaxSteps == 2
MaxStepCalls == 3

VARIABLES
    num_tasks, num_machines, time_slots,   \* self.num_tasks, ...
    task_durations,                        \* self.task_durations
    machine_capabilities,                  \* self.machine_capabilities
    task_dependencies,                     \* self.task_dependencies
    qubo,          \* outcome of the last create_qubo_matrix call
    decoded,       \* outcome of the last decode_solution call
    measured,      \* outcome of the last calculate_metrics call
    pc,            \* position inside run_optimization_comparison
    quantum_result, classical_result,      \* locals of run_optimization_comparison
    report,        \* outcome of run_optimization_comparison
    training_jobs, \* main.training_jobs: job id -> entry
    training_tasks,\* the run_training coroutines: job id -> position and loop index
    quantum_jobs,  \* main.quantum_jobs: job id -> entry
    quantum_task,  \* the job id run_quantum_optimization is working on, or NoJob
    env,           \* the attributes of one FactoryEnv
    step_calls,    \* calls of FactoryEnv.step since the last reset (history)
    returned       \* outcome of the last FactoryEnv.reset or step call

problem == <<num_tasks, num_machines, time_slots, task_durations,
             machine_capabilities, task_dependencies>>
run == <<pc, quantum_result, classical_result, report>>
service == <<training_jobs, training_tasks, quantum_jobs, quantum_task>>
factory_env == <<env, step_calls, returned>>
vars == <<num_tasks, num_machines, time_slots, task_durations,
          machine_capabilities, task_dependencies, qubo, decoded, measured,
          pc, quantum_result, classical_result, report,
          training_jobs, training_tasks, quantum_jobs, quantum_task,
          env, step_calls, returned>>

\* ----------------------------------------------------------------- helpers

\* Python's range(n) and range(a, b).
range(n) == 0 .. (n - 1)
range2(a, b) == a .. (b - 1)

max(a, b) == IF a >= b THEN a ELSE b

RECURSIVE SumOver(_, _)
\* sum of f[x] over the finite set S (f a function on a superset of S)
SumOver(S, f) ==
    IF S = {} THEN 0
    ELSE LET x == CHOOSE y \in S : TRUE
         IN f[x] + SumOver(S \ {x}, f)

RECURSIVE MaxOver(_)
\* Python's max() over a non-empty finite set of integers
MaxOver(S) ==
    LET x == CHOOSE y \in S : TRUE
    IN IF S = {x} THEN x ELSE max(x, MaxOver(S \ {x}))

\* the entries of a solution vector: 0, 1/2 and 1 in units of 1 / Unit
Levels == 0 .. 2
Unit == MaxOver(Levels)

\* ---------------------------------------------------------- setup_problem

\* np.random.randint(low, high) of the task's type, i % len(task_types)
DurationRange(i) ==
    CASE i % 4 = 0 -> range2(2, 5)
      [] i % 4 = 1 -> range2(1, 3)
      [] i % 4 = 2 -> range2(1, 4)
      [] OTHER     -> range2(1, 2)

\* the capabilities list of one machine
Capabilities(n, machine) ==
    IF machine = 0 THEN {i \in range(n) : i % 4 = 0}
    ELSE IF machine = 1 THEN {i \in range(n) : i % 4 = 1}
    ELSE IF machine = 2 THEN {i \in range(n) : i % 4 = 2}
    ELSE {i \in range(n) : i % 4 = 3}

\* a plausible slip: every later task of a block waits for the block's first
DependenciesOnBlockStart(n) ==
    LET starts == {i \in range(n - 1) : i % 4 = 0}
        keys == {t \in range(n) :
                    \E i \in starts : t \in {i + 1, i + 2, i + 3}}
    IN [t \in keys |-> <<t - (t % 4)>>]

\* the dictionary the loop "for i in range(0, num_tasks - 1, 4)" builds
Dependencies(n) ==
    LET starts == {i \in range(n - 1) : i % 4 = 0}
        keys == {t \in range(n) :
                    \E i \in starts : t \in {i + 1, i + 2, i + 3}}
    IN [t \in keys |-> <<t - 1>>]

Dims(hi) == (0 - NegDims) .. hi

\* QuantumFactoryScheduler.__init__: no argument is validated.
Construct(n, m, t, durations) ==
    /\ num_tasks = n
    /\ num_machines = m
    /\ time_slots = t
    /\ task_durations = durations
    /\ machine_capabilities = [machine \in range(m) |-> Capabilities(n, machine)]
    /\ task_dependencies = Dependencies(n)

NoOutcome == [kind |-> "none"]

\* no background job of the API is at work
NoJob == 0

\* main.py at import: both registries are empty
NoService ==
    /\ training_jobs = <<>>
    /\ training_tasks = <<>>
    /\ quantum_jobs = <<>>
    /\ quantum_task = NoJob

\* no FactoryEnv has been constructed
NoEnv ==
    /\ env = [constructed |-> FALSE]
    /\ step_calls = 0
    /\ returned = NoOutcome

Init ==
    /\ NoService
    /\ NoEnv
    /\ \E n \in Dims(MaxTasks), m \in Dims(MaxMachines), t \in Dims(MaxSlots) :
         /\ n * m * t <= MaxQubits
         /\ \E durations \in [range(n) -> 1 .. 4] :
              /\ \A i \in range(n) : durations[i] \in DurationRange(i)
              /\ Construct(n, m, t, durations)
    /\ qubo = NoOutcome
    /\ decoded = NoOutcome
    /\ measured = NoOutcome
    /\ pc = "ready"
    /\ quantum_result = NoOutcome
    /\ classical_result = NoOutcome
    /\ report = NoOutcome

RECURSIVE DurationDraws(_)
\* the dictionaries the first loop of setup_problem can fill for n tasks
DurationDraws(n) ==
    IF n <= 0 THEN {<<>>}
    ELSE {rest @@ ((n - 1) :> duration) :
             rest \in DurationDraws(n - 1), duration \in DurationRange(n - 1)}

\* a constructed scheduler on which only create_qubo_matrix is called
InitQubo ==
    /\ NoService
    /\ NoEnv
    /\ \E n \in Dims(MaxTasks), m \in Dims(MaxMachines), t \in Dims(MaxSlots) :
         /\ n * m * t <= QuboQubits
         /\ \E durations \in DurationDraws(n) : Construct(n, m, t, durations)
    /\ qubo = NoOutcome
    /\ decoded = NoOutcome
    /\ measured = NoOutcome
    /\ pc = "ready"
    /\ quantum_result = NoOutcome
    /\ classical_result = NoOutcome
    /\ report = NoOutcome

\* __init__ up to the call of setup_problem: the three dictionaries are empty
InitSetup ==
    /\ NoService
    /\ NoEnv
    /\ num_tasks \in Dims(SetupTasks)
    /\ num_machines \in Dims(SetupMachines)
    /\ time_slots \in Dims(MaxSlots)
    /\ task_durations = <<>>
    /\ machine_capabilities = <<>>
    /\ task_dependencies = <<>>
    /\ qubo = NoOutcome
    /\ decoded = NoOutcome
    /\ measured = NoOutcome
    /\ pc = "constructing"
    /\ quantum_result = NoOutcome
    /\ classical_result = NoOutcome
    /\ report = NoOutcome

setup_problem ==
    /\ UNCHANGED <<service, factory_env>>
    /\ pc = "constructing"
    /\ task_durations' \in DurationDraws(num_tasks)
    /\ machine_capabilities' =
         [machine \in range(num_machines) |-> Capabilities(num_tasks, machine)]
    /\ task_dependencies' = Dependencies(num_tasks)
    /\ pc' = "ready"
    /\ UNCHANGED <<num_tasks, num_machines, time_slots, qubo, decoded, measured,
                   quantum_result, classical_result, report>>

\* ------------------------------------------------------ create_qubo_matrix

\* a plausible slip: a size of at least one, to keep np.zeros from an empty shape
qubo_size_at_least_one == max(1, num_tasks * num_machines * time_slots)

qubo_size == num_tasks * num_machines * time_slots

\* a plausible slip: the stride of a task is num_machines, not
\* num_machines * time_slots
get_var_index_short_stride(task, machine, time) ==
    task * num_machines + machine * time_slots + time

\* create_qubo_matrix.get_var_index
get_var_index(task, machine, time) ==
    task * num_machines * time_slots + machine * time_slots + time

\* the (task, machine, time) triples the builder's loops run over
Triples == range(num_tasks) \X range(num_machines) \X range(time_slots)

\* every entry of the matrix is kept multiplied by QScale
QScale == time_slots

\* Constraint 1, linear term: Q[idx1, idx1] -= penalty_1
OneHotLinear(tr) == 0 - 10 * QScale

\* Constraint 1, quadratic term: Q[idx1, idx2] += penalty_1 for two distinct
\* (machine, time) pairs of one task
OneHotQuadratic(a, b) ==
    IF a[1] = b[1] /\ <<a[2], a[3]>> # <<b[2], b[3]>> THEN 10 * QScale ELSE 0

\* a plausible slip: penalty_2 = 5.0, below the duration reward of one slot
CapabilityTermWeak(tr) ==
    IF tr[1] \notin machine_capabilities[tr[2]] THEN 5 * QScale ELSE 0

\* Constraint 2: Q[idx, idx] += penalty_2 when the machine lacks the task
CapabilityTerm(tr) ==
    IF tr[1] \notin machine_capabilities[tr[2]] THEN 15 * QScale ELSE 0

\* Constraint 3: Q[idx, idx] -= penalty_3 / duration, once per
\* (start_time, dt) with start_time + dt = time
DurationTerm(tr) ==
    LET duration == task_durations[tr[1]]
        hits == {p \in range(time_slots - duration + 1) \X range(duration) :
                    p[1] + p[2] = tr[3]}
    IN 0 - Cardinality(hits) * (12 \div duration) * QScale

\* a plausible slip: one loop over the machines, so that only a predecessor
\* and a dependent on the same machine are rewarded
PrecedenceTermSameMachine(a, b) ==
    IF /\ b[1] \in DOMAIN task_dependencies
       /\ \E k \in DOMAIN task_dependencies[b[1]] :
              task_dependencies[b[1]][k] = a[1]
       /\ a[2] = b[2]
       /\ b[3] \in range2(a[3] + task_durations[a[1]], time_slots)
    THEN 0 - 20 * QScale
    ELSE 0

\* Constraint 4: Q[idx1, idx2] -= penalty_4, idx1 a variable of the
\* predecessor at t1, idx2 one of the dependent task at t2 >= t1 + duration
PrecedenceTerm(a, b) ==
    IF /\ b[1] \in DOMAIN task_dependencies
       /\ \E k \in DOMAIN task_dependencies[b[1]] :
              task_dependencies[b[1]][k] = a[1]
       /\ b[3] \in range2(a[3] + task_durations[a[1]], time_slots)
    THEN 0 - 20 * QScale * Cardinality({k \in DOMAIN task_dependencies[b[1]] :
                                            task_dependencies[b[1]][k] = a[1]})
    ELSE 0

\* Objective: Q[idx, idx] += objective_weight * time / time_slots
ObjectiveTerm(tr) == tr[3]

\* the terms the loops add on the diagonal for one variable
LinearTerms(tr) ==
    OneHotLinear(tr) + CapabilityTerm(tr) + DurationTerm(tr) + ObjectiveTerm(tr)

\* the terms the loops add for an ordered pair of variables
QuadraticTerms(a, b) == OneHotQuadratic(a, b) + PrecedenceTerm(a, b)

RECURSIVE SumLinear(_)
SumLinear(S) ==
    IF S = {} THEN 0
    ELSE LET tr == CHOOSE y \in S : TRUE
         IN LinearTerms(tr) + SumLinear(S \ {tr})

RECURSIVE SumQuadratic(_)
SumQuadratic(S) ==
    IF S = {} THEN 0
    ELSE LET p == CHOOSE y \in S : TRUE
         IN QuadraticTerms(p[1], p[2]) + SumQuadratic(S \ {p})

\* the variables whose index is k
VariablesAt(k) == {tr \in Triples : get_var_index(tr[1], tr[2], tr[3]) = k}

\* what the loops add to Q[i, j]: every term whose index pair is (i, j)
QuboEntry(i, j) ==
    SumQuadratic(VariablesAt(i) \X VariablesAt(j))
      + (IF i = j THEN SumLinear(VariablesAt(i)) ELSE 0)

\* a plausible slip: the matrix is kept between calls and a later call adds
\* its terms to the entries of the earlier one
QuboOutcomeAccumulating ==
    IF qubo_size < 0
    THEN [kind |-> "raised", error |-> "ValueError"]
    ELSE [kind |-> "matrix", size |-> qubo_size,
          Q |-> [ij \in range(qubo_size) \X range(qubo_size) |->
                    IF qubo.kind = "matrix"
                    THEN qubo.Q[ij] + QuboEntry(ij[1], ij[2])
                    ELSE QuboEntry(ij[1], ij[2])]]

\* the value create_qubo_matrix returns, or the exception it raises:
\* np.zeros refuses a negative size
QuboOutcome ==
    IF qubo_size < 0
    THEN [kind |-> "raised", error |-> "ValueError"]
    ELSE [kind |-> "matrix", size |-> qubo_size,
          Q |-> [ij \in range(qubo_size) \X range(qubo_size) |->
                    QuboEntry(ij[1], ij[2])]]

\* a direct call of create_qubo_matrix.  The matrix is a function of the
\* problem instance alone and decode_solution does not read it, so the calls
\* made before the first decode_solution reach every state a later call can.
create_qubo_matrix ==
    /\ UNCHANGED <<service, factory_env>>
    /\ decoded = NoOutcome
    /\ qubo' = QuboOutcome
    /\ UNCHANGED <<problem, decoded, measured, run>>

\* --------------------------------------------------------- decode_solution

\* a solution vector handed to decode_solution; None is Absent
Absent == [present |-> FALSE, x |-> <<>>]
Given(x) == [present |-> TRUE, x |-> x]

\* decode_solution.get_var_index
decode_get_var_index(task, machine, time) ==
    task * num_machines * time_slots + machine * time_slots + time

\* the k-th (machine, time) pair the two nested loops visit, k = 1, 2, ...
PairAt(k) == <<(k - 1) \div time_slots, (k - 1) % time_slots>>
NumPairs == IF num_machines > 0 /\ time_slots > 0
            THEN num_machines * time_slots ELSE 0

RECURSIVE ScanLastWins(_, _, _, _, _)
\* a plausible slip: >= for >, so that the last of several equal entries wins
ScanLastWins(x, task, k, best_value, best_assignment) ==
    IF k > NumPairs THEN best_assignment
    ELSE LET machine == PairAt(k)[1]
             time == PairAt(k)[2]
             idx == decode_get_var_index(task, machine, time)
         IN IF idx < Len(x) /\ x[idx + 1] >= best_value
            THEN ScanLastWins(x, task, k + 1, x[idx + 1], <<machine, time>>)
            ELSE ScanLastWins(x, task, k + 1, best_value, best_assignment)

RECURSIVE Scan(_, _, _, _, _)
\* the loops over machine and time from the k-th pair on; <<>> is None
Scan(x, task, k, best_value, best_assignment) ==
    IF k > NumPairs THEN best_assignment
    ELSE LET machine == PairAt(k)[1]
             time == PairAt(k)[2]
             idx == decode_get_var_index(task, machine, time)
         IN IF idx < Len(x) /\ x[idx + 1] > best_value
            THEN Scan(x, task, k + 1, x[idx + 1], <<machine, time>>)
            ELSE Scan(x, task, k + 1, best_value, best_assignment)

\* a plausible slip: best_value starts at 0 instead of -1
BestAssignmentFromZero(x, task) == Scan(x, task, 1, 0, <<>>)

\* best_assignment after the scan of one task; best_value starts at -1
BestAssignment(x, task) == Scan(x, task, 1, 0 - Unit, <<>>)

\* "if best_assignment:": None is falsy, every (machine, time) tuple truthy
Truthy(best_assignment) == best_assignment # <<>>

RECURSIVE InsertByStart(_, _)
\* seq sorted by start_time; e goes behind every entry that starts no later
InsertByStart(seq, e) ==
    IF seq = <<>> THEN <<e>>
    ELSE IF seq[Len(seq)].start_time <= e.start_time THEN Append(seq, e)
    ELSE Append(InsertByStart(SubSeq(seq, 1, Len(seq) - 1), e), seq[Len(seq)])

RECURSIVE SortByStart(_)
\* list.sort(key=lambda x: x['start_time']): stable
SortByStart(seq) ==
    IF seq = <<>> THEN <<>>
    ELSE InsertByStart(SortByStart(SubSeq(seq, 1, Len(seq) - 1)), seq[Len(seq)])

RECURSIVE Appended(_, _, _)
\* schedule['machines'][machine] after the loop over the tasks task, task+1, ..:
\* one entry per task assigned to the machine, in task order
Appended(assign, machine, task) ==
    IF task >= num_tasks THEN <<>>
    ELSE LET rest == Appended(assign, machine, task + 1)
         IN IF task \in DOMAIN assign /\ assign[task][1] = machine
            THEN <<[task |-> task,
                    start_time |-> assign[task][2],
                    end_time |-> assign[task][2] + task_durations[task]]>> \o rest
            ELSE rest

\* the schedule dictionary built from the assignments task -> (machine, start)
ScheduleOf(assign, sorted) ==
    [tasks |-> [task \in DOMAIN assign |->
                  [machine |-> assign[task][1],
                   start_time |-> assign[task][2],
                   end_time |-> assign[task][2] + task_durations[task],
                   duration |-> task_durations[task]]],
     machines |-> [m \in range(num_machines) |->
                     IF sorted THEN SortByStart(Appended(assign, m, 0))
                     ELSE Appended(assign, m, 0)],
     timeline |-> <<>>]

\* decode_solution on a vector that is not None
DecodeVector(x) ==
    LET assigned == {task \in range(num_tasks) : Truthy(BestAssignment(x, task))}
    IN ScheduleOf([task \in assigned |-> BestAssignment(x, task)], TRUE)

\* generate_random_schedule: valid_machines of a task
ValidMachines(task) ==
    {m \in range(num_machines) : task \in machine_capabilities[m]}

\* np.random.randint(0, max(1, time_slots - duration))
RandomStarts(task) == range2(0, max(1, time_slots - task_durations[task]))

RECURSIVE RandomDraws(_)
\* the <<machine, start_time>> pairs the loop can draw for these tasks
RandomDraws(tasks) ==
    IF tasks = {} THEN {<<>>}
    ELSE LET task == CHOOSE t \in tasks : \A u \in tasks : u <= t
         IN {rest @@ (task :> <<machine, start_time>>) :
                rest \in RandomDraws(tasks \ {task}),
                machine \in ValidMachines(task),
                start_time \in RandomStarts(task)}

\* every schedule generate_random_schedule can return; the timelines are
\* left in insertion order
RandomSchedules ==
    LET placed == {task \in range(num_tasks) : ValidMachines(task) # {}}
    IN {ScheduleOf(a, FALSE) : a \in RandomDraws(placed)}

\* the schedules decode_solution can return
DecodeOutcomes(v) ==
    IF ~v.present THEN RandomSchedules ELSE {DecodeVector(v.x)}

\* ------------------------------------------------------- check_constraints

\* a plausible slip: the test of a timeline taken to be sorted by start
\* time, where the later entry only has to start before the earlier one ends
ConflictsAssumingSorted(timeline) ==
    {p \in (DOMAIN timeline) \X (DOMAIN timeline) :
        /\ p[1] < p[2]
        /\ timeline[p[2]].start_time < timeline[p[1]].end_time}

\* a plausible slip: <= for <, which counts two intervals that only touch
ConflictsTouching(timeline) ==
    {p \in (DOMAIN timeline) \X (DOMAIN timeline) :
        /\ p[1] < p[2]
        /\ timeline[p[1]].start_time <= timeline[p[2]].end_time
        /\ timeline[p[2]].start_time <= timeline[p[1]].end_time}

\* the pairs i < j of one timeline whose intervals intersect
Conflicts(timeline) ==
    {p \in (DOMAIN timeline) \X (DOMAIN timeline) :
        /\ p[1] < p[2]
        /\ timeline[p[1]].start_time < timeline[p[2]].end_time
        /\ timeline[p[2]].start_time < timeline[p[1]].end_time}

\* "Check machine capability constraints": what the first loop adds
CapabilityViolations(schedule) ==
    Cardinality({task \in DOMAIN schedule.tasks :
                    task \notin machine_capabilities[schedule.tasks[task].machine]})

\* a plausible slip: >= for >, which counts a task that starts when its
\* predecessor ends
PrecedenceViolationsNonStrict(schedule) ==
    LET edges == UNION {{<<task, k>> : k \in DOMAIN task_dependencies[task]} :
                           task \in DOMAIN task_dependencies}
    IN Cardinality({e \in edges :
          LET task == e[1]
              pred_task == task_dependencies[e[1]][e[2]]
          IN /\ task \in DOMAIN schedule.tasks
             /\ pred_task \in DOMAIN schedule.tasks
             /\ schedule.tasks[pred_task].end_time
                  >= schedule.tasks[task].start_time})

\* "Check precedence constraints": what the second loop adds
PrecedenceViolations(schedule) ==
    LET edges == UNION {{<<task, k>> : k \in DOMAIN task_dependencies[task]} :
                           task \in DOMAIN task_dependencies}
    IN Cardinality({e \in edges :
          LET task == e[1]
              pred_task == task_dependencies[e[1]][e[2]]
          IN /\ task \in DOMAIN schedule.tasks
             /\ pred_task \in DOMAIN schedule.tasks
             /\ schedule.tasks[pred_task].end_time
                  > schedule.tasks[task].start_time})

\* "Check machine conflicts": what the third loop adds
OverlapViolations(schedule) ==
    LET overlaps == [m \in DOMAIN schedule.machines |->
                        Cardinality(Conflicts(schedule.machines[m]))]
    IN SumOver(DOMAIN schedule.machines, overlaps)

\* a plausible slip: a task counted once, whatever it violates
check_constraints_once_per_task(schedule) ==
    LET incapable == {task \in DOMAIN schedule.tasks :
            task \notin machine_capabilities[schedule.tasks[task].machine]}
        early == {task \in DOMAIN schedule.tasks \cap DOMAIN task_dependencies :
            \E k \in DOMAIN task_dependencies[task] :
                /\ task_dependencies[task][k] \in DOMAIN schedule.tasks
                /\ schedule.tasks[task_dependencies[task][k]].end_time
                     > schedule.tasks[task].start_time}
        clashing == {task \in DOMAIN schedule.tasks :
            \E m \in DOMAIN schedule.machines :
                \E p \in Conflicts(schedule.machines[m]) :
                    schedule.machines[m][p[2]].task = task}
    IN Cardinality(incapable \cup early \cup clashing)

check_constraints(schedule) ==
    CapabilityViolations(schedule) + PrecedenceViolations(schedule)
      + OverlapViolations(schedule)

\* ------------------------------------------------------- calculate_metrics

\* float('inf'), the makespan of a schedule without tasks
Infinity == -1

\* a plausible slip: the makespan is not compared with the horizon
EfficiencyUnguarded(makespan) == time_slots - makespan

\* efficiency, times time_slots
Efficiency(makespan) ==
    IF makespan < time_slots THEN time_slots - makespan ELSE 0

\* the dictionary calculate_metrics returns, or the exception it raises
calculate_metrics(schedule) ==
    IF DOMAIN schedule.tasks = {}
    THEN [kind |-> "metrics",
          metrics |-> [makespan |-> Infinity, efficiency |-> 0, utilization |-> 0]]
    ELSE LET ends == {schedule.tasks[t].end_time : t \in DOMAIN schedule.tasks}
             durations == [t \in DOMAIN schedule.tasks |-> schedule.tasks[t].duration]
             makespan == MaxOver(ends)
             total_busy_time == SumOver(DOMAIN schedule.tasks, durations)
             total_available_time == num_machines * time_slots
             efficiency == Efficiency(makespan)
             violations == check_constraints(schedule)
         IN IF total_available_time = 0
            THEN [kind |-> "raised", error |-> "ZeroDivisionError"]
            ELSE [kind |-> "metrics",
                  metrics |->
                    [makespan |-> makespan,
                     efficiency |-> efficiency,
                     utilization |-> total_busy_time,
                     constraint_violations |-> violations,
                     objective_score |->
                        6 * efficiency * num_machines + 4 * total_busy_time
                          - violations * total_available_time]]

\* ------------------------------------------------- calls on the scheduler

\* the vectors of length n with entries in Levels, at most MaxHot of them
\* non-zero
Vectors(n) ==
    LET hot == {S \in SUBSET (1 .. n) : Cardinality(S) <= MaxHot}
    IN UNION {{[k \in 1 .. n |-> IF k \in S THEN val[k] ELSE 0] :
                  val \in [S -> Levels \ {0}]} : S \in hot}

\* the vectors (x > 0.5).astype(int) can be
BinaryVectors(n) == {x \in Vectors(n) : \A k \in 1 .. n : x[k] \in {0, Unit}}

\* a direct call of decode_solution, with None or a vector of full dimension.
\* decode_solution reads its argument and the problem instance only, so one
\* call per scheduler shows every outcome a later call can have.
decode_solution ==
    /\ UNCHANGED <<service, factory_env>>
    /\ decoded = NoOutcome
    /\ \E v \in {Absent} \cup {Given(x) : x \in Vectors(qubo_size)} :
         \E s \in DecodeOutcomes(v) :
            decoded' = [kind |-> "schedule", vector |-> v, schedule |-> s]
    /\ measured' = NoOutcome
    /\ UNCHANGED <<problem, qubo, run>>

\* a direct call of generate_random_schedule, as decode_solution makes for
\* a vector that is None
generate_random_schedule ==
    /\ UNCHANGED <<service, factory_env>>
    /\ pc = "ready"
    /\ decoded = NoOutcome
    /\ \E s \in RandomSchedules :
         decoded' = [kind |-> "schedule", vector |-> Absent, schedule |-> s]
    /\ measured' = NoOutcome
    /\ UNCHANGED <<problem, qubo, run>>

\* a direct call of calculate_metrics on the decoded schedule
measure ==
    /\ UNCHANGED <<service, factory_env>>
    /\ decoded.kind = "schedule"
    /\ measured = NoOutcome
    /\ measured' = calculate_metrics(decoded.schedule)
    /\ UNCHANGED <<problem, qubo, decoded, run>>

\* -------------------------------------------- run_optimization_comparison

\* solve_qaoa(layers=2)
Layers == 2

\* result.optimal_point: the 2 * layers angles of the variational circuit,
\* each -1 or 0 here, or no such attribute
OptimalPoints ==
    {Absent} \cup {Given(p) : p \in [1 .. 2 * Layers -> {0 - Unit, 0}]}

\* the exception a call propagates
Raise(error) ==
    /\ pc' = "raised"
    /\ report' = [kind |-> "raised", error |-> error]
    /\ UNCHANGED <<quantum_result, classical_result>>

\* solve_qaoa, the first statement of run_optimization_comparison.  It
\* reads the problem instance alone and overwrites what the direct calls
\* left, so a run started before any decode_solution stands for every run.
solve_qaoa ==
    /\ UNCHANGED <<service, factory_env>>
    /\ pc = "ready"
    /\ decoded = NoOutcome
    /\ qubo' = QuboOutcome
    /\ UNCHANGED problem
    /\ \/ /\ qubo_size < 0
          /\ Raise("ValueError")
          /\ UNCHANGED <<decoded, measured>>
       \/ \* what qiskit does with an operator on no qubit is not in the source
          /\ qubo_size = 0
          /\ Raise("LibraryError")
          /\ UNCHANGED <<decoded, measured>>
       \/ /\ qubo_size >= 0
          /\ \E v \in OptimalPoints : \E s \in DecodeOutcomes(v) :
               /\ decoded' = [kind |-> "schedule", vector |-> v, schedule |-> s]
               /\ measured' = calculate_metrics(s)
               /\ IF measured'.kind = "raised"
                  THEN Raise(measured'.error)
                  ELSE /\ quantum_result' = [kind |-> "result", schedule |-> s,
                                             metrics |-> measured'.metrics]
                       /\ pc' = "solved_qaoa"
                       /\ UNCHANGED <<classical_result, report>>

\* solve_classical, the second statement of run_optimization_comparison
solve_classical ==
    /\ UNCHANGED <<service, factory_env>>
    /\ pc = "solved_qaoa"
    /\ qubo' = QuboOutcome
    /\ UNCHANGED problem
    /\ \/ /\ qubo_size < 0
          /\ Raise("ValueError")
          /\ UNCHANGED <<decoded, measured>>
       \/ \* what scipy does with an empty x0 is not in the source
          /\ qubo_size = 0
          /\ Raise("LibraryError")
          /\ UNCHANGED <<decoded, measured>>
       \/ /\ qubo_size >= 0
          /\ \E binary_solution \in BinaryVectors(qubo_size) :
               LET s == DecodeVector(binary_solution)
               IN /\ decoded' = [kind |-> "schedule",
                                 vector |-> Given(binary_solution), schedule |-> s]
                  /\ measured' = calculate_metrics(s)
                  /\ IF measured'.kind = "raised"
                     THEN Raise(measured'.error)
                     ELSE /\ classical_result' = [kind |-> "result", schedule |-> s,
                                                  metrics |-> measured'.metrics]
                          /\ pc' = "solved_classical"
                          /\ UNCHANGED <<quantum_result, report>>

\* the dictionary 'comparison' of the report
Comparison(quantum, classical) ==
    [quantum_advantage |->
        classical.metrics.objective_score - quantum.metrics.objective_score,
     efficiency_improvement |->
        quantum.metrics.efficiency - classical.metrics.efficiency,
     utilization_improvement |->
        quantum.metrics.utilization - classical.metrics.utilization]

\* the rest of run_optimization_comparison: the comparison and the return
compare ==
    /\ UNCHANGED <<service, factory_env>>
    /\ pc = "solved_classical"
    /\ IF /\ "objective_score" \in DOMAIN classical_result.metrics
          /\ "objective_score" \in DOMAIN quantum_result.metrics
       THEN /\ report' = [kind |-> "report",
                          quantum |-> quantum_result,
                          classical |-> classical_result,
                          comparison |-> Comparison(quantum_result, classical_result)]
            /\ pc' = "returned"
            /\ UNCHANGED <<quantum_result, classical_result>>
       ELSE Raise("KeyError")
    /\ UNCHANGED <<problem, qubo, decoded, measured>>

\* direct calls of the scheduler's methods
Next ==
    \/ create_qubo_matrix
    \/ decode_solution
    \/ measure

Spec == Init /\ [][Next]_vars

\* one call of run_optimization_comparison, as __main__ and the job runner make
NextRun ==
    \/ solve_qaoa
    \/ solve_classical
    \/ compare

SpecRun == Init /\ [][NextRun]_vars

\* the construction of a scheduler of any size
NextSetup == setup_problem

SpecSetup == InitSetup /\ [][NextSetup]_vars

\* the construction followed by one random schedule
NextFallback ==
    \/ setup_problem
    \/ generate_random_schedule

SpecFallback == InitSetup /\ [][NextFallback]_vars

\* calls of create_qubo_matrix alone
NextQubo == create_qubo_matrix

SpecQubo == InitQubo /\ [][NextQubo]_vars

\* the calls a client makes on one scheduler, in any order: the direct calls
\* and the steps of run_optimization_comparison
NextCalls ==
    \/ create_qubo_matrix
    \/ decode_solution
    \/ generate_random_schedule
    \/ measure
    \/ solve_qaoa
    \/ solve_classical
    \/ compare

SpecCalls == Init /\ [][NextCalls]_vars

\* ------------------------------------------------- main.py: training jobs

\* The handlers and the background coroutines share one event loop: a
\* coroutine runs without interruption from one await to the next.  The
\* entry fields algorithm, num_workers, start_time, best_reward, end_time and
\* error are written and never read back by the code and are left out.

\* the API process with no job
InitService ==
    /\ NoService
    /\ NoEnv
    /\ num_tasks = 0
    /\ num_machines = 0
    /\ time_slots = 0
    /\ task_durations = <<>>
    /\ machine_capabilities = <<>>
    /\ task_dependencies = <<>>
    /\ qubo = NoOutcome
    /\ decoded = NoOutcome
    /\ measured = NoOutcome
    /\ pc = "idle"
    /\ quantum_result = NoOutcome
    /\ classical_result = NoOutcome
    /\ report = NoOutcome

\* the scheduler, the FactoryEnv and the quantum registry are not touched
TrainingOnly ==
    UNCHANGED <<problem, qubo, decoded, measured, run, quantum_jobs, quantum_task,
                factory_env>>

\* an entry with another status
WithStatus(job, status) == [job EXCEPT !.status = status]

\* POST /training/start
start_training ==
    /\ Cardinality(DOMAIN training_jobs) < MaxJobs
    /\ \E iterations \in 0 .. MaxIterations :
         LET job_id == Cardinality(DOMAIN training_jobs) + 1
         IN /\ training_jobs' = training_jobs @@
                  (job_id :> [status |-> "starting", iterations |-> iterations,
                              current_iteration |-> 0])
            /\ training_tasks' = training_tasks @@
                  (job_id :> [pc |-> "scheduled", i |-> 0])
    /\ TrainingOnly

\* DELETE /training/jobs/{job_id}, for a job of the registry
stop_training_job ==
    /\ \E job_id \in DOMAIN training_jobs :
         training_jobs' = [training_jobs EXCEPT ![job_id] = WithStatus(@, "stopped")]
    /\ UNCHANGED training_tasks
    /\ TrainingOnly

\* run_training from its start to its first await, or to its end when the
\* trainer cannot be built or there is no iteration to run
run_training_start ==
    /\ \E job_id \in DOMAIN training_tasks :
         /\ training_tasks[job_id].pc = "scheduled"
         /\ LET job == training_jobs[job_id]
            IN \/ \* FactoryTrainer(...) raises (ray, the file system)
                  /\ training_jobs' = [training_jobs EXCEPT
                                         ![job_id] = WithStatus(job, "failed")]
                  /\ training_tasks' = [training_tasks EXCEPT ![job_id].pc = "done"]
               \/ /\ job.iterations <= 0
                  /\ training_jobs' = [training_jobs EXCEPT
                                         ![job_id] = WithStatus(job, "completed")]
                  /\ training_tasks' = [training_tasks EXCEPT ![job_id].pc = "done"]
               \/ \* i = 0: the status was just set to "running"
                  /\ job.iterations > 0
                  /\ training_jobs' = [training_jobs EXCEPT
                        ![job_id] = [job EXCEPT !.status = "running",
                                                !.current_iteration = 1]]
                  /\ training_tasks' = [training_tasks EXCEPT
                        ![job_id] = [pc |-> "sleeping", i |-> 0]]
    /\ TrainingOnly

\* run_training from the return of one asyncio.sleep to the next await, or to
\* its end
run_training_iterate ==
    /\ \E job_id \in DOMAIN training_tasks :
         /\ training_tasks[job_id].pc = "sleeping"
         /\ LET job == training_jobs[job_id]
                i == training_tasks[job_id].i + 1
            IN IF i >= job.iterations \/ job.status = "stopped"
               THEN \* the loop ends or breaks; line 316 follows either way
                    /\ training_jobs' = [training_jobs EXCEPT
                                           ![job_id] = WithStatus(job, "completed")]
                    /\ training_tasks' = [training_tasks EXCEPT ![job_id].pc = "done"]
               ELSE /\ training_jobs' = [training_jobs EXCEPT
                                           ![job_id].current_iteration = i + 1]
                    /\ training_tasks' = [training_tasks EXCEPT ![job_id].i = i]
    /\ TrainingOnly

NextTraining ==
    \/ start_training
    \/ stop_training_job
    \/ run_training_start
    \/ run_training_iterate

SpecTraining == InitService /\ [][NextTraining]_vars

\* -------------------------------------------------- main.py: quantum jobs

\* the <<num_tasks, num_machines, time_slots>> of the requests
JobArguments == ((0 - 1) .. 1) \X {1} \X {1, 3}

\* the training registry and the FactoryEnv are not touched
QuantumOnly == UNCHANGED <<training_jobs, training_tasks, factory_env>>

\* POST /quantum/optimize.  run_quantum_optimization has no await, so no
\* request is served while it is at work.
start_quantum_optimization ==
    /\ quantum_task = NoJob
    /\ Cardinality(DOMAIN quantum_jobs) < MaxJobs
    /\ \E args \in JobArguments :
         LET job_id == Cardinality(DOMAIN quantum_jobs) + 1
         IN quantum_jobs' = quantum_jobs @@
               (job_id :> [status |-> "starting", num_tasks |-> args[1],
                           num_machines |-> args[2], time_slots |-> args[3],
                           result |-> NoOutcome])
    /\ UNCHANGED <<quantum_task, problem, qubo, decoded, measured, run>>
    /\ QuantumOnly

\* run_quantum_optimization up to the call of run_optimization_comparison:
\* the status is set and the scheduler is constructed
run_quantum_optimization ==
    /\ quantum_task = NoJob
    /\ pc = "idle"
    /\ \E job_id \in DOMAIN quantum_jobs :
         LET job == quantum_jobs[job_id]
         IN /\ job.status = "starting"
            /\ quantum_jobs' = [quantum_jobs EXCEPT ![job_id].status = "running"]
            /\ quantum_task' = job_id
            /\ num_tasks' = job.num_tasks
            /\ num_machines' = job.num_machines
            /\ time_slots' = job.time_slots
            /\ task_durations' \in DurationDraws(job.num_tasks)
            /\ machine_capabilities' =
                 [machine \in range(job.num_machines) |->
                     Capabilities(job.num_tasks, machine)]
            /\ task_dependencies' = Dependencies(job.num_tasks)
    /\ pc' = "ready"
    /\ UNCHANGED <<qubo, decoded, measured, quantum_result, classical_result, report>>
    /\ QuantumOnly

\* a plausible slip: the message of the exception is stored as the result
JobFailedWithResult(job, error) ==
    [job EXCEPT !.status = "failed", !.result = [kind |-> "error", error |-> error]]

\* the except branch: the entry of a job whose run raised
JobFailed(job, error) ==
    [field \in DOMAIN job \cup {"error"} |->
        IF field = "status" THEN "failed"
        ELSE IF field = "error" THEN error
        ELSE job[field]]

\* lines 341-346: the entry of a job whose run returned this report
JobCompleted(job, result) ==
    IF /\ "efficiency" \in DOMAIN result.quantum.metrics
       /\ "efficiency" \in DOMAIN result.classical.metrics
    THEN [job EXCEPT
            !.status = "completed",
            !.result = [quantum_efficiency |-> result.quantum.metrics.efficiency,
                        classical_efficiency |-> result.classical.metrics.efficiency,
                        improvement |-> result.comparison.efficiency_improvement]]
    ELSE JobFailed(job, "KeyError")

\* run_quantum_optimization after run_optimization_comparison has returned
\* or raised; the scheduler is a local and goes with the coroutine
run_quantum_optimization_end ==
    /\ quantum_task # NoJob
    /\ pc \in {"returned", "raised"}
    /\ quantum_jobs' = [quantum_jobs EXCEPT ![quantum_task] =
            IF pc = "returned" THEN JobCompleted(@, report)
            ELSE JobFailed(@, report.error)]
    /\ quantum_task' = NoJob
    /\ num_tasks' = 0
    /\ num_machines' = 0
    /\ time_slots' = 0
    /\ task_durations' = <<>>
    /\ machine_capabilities' = <<>>
    /\ task_dependencies' = <<>>
    /\ qubo' = NoOutcome
    /\ decoded' = NoOutcome
    /\ measured' = NoOutcome
    /\ pc' = "idle"
    /\ quantum_result' = NoOutcome
    /\ classical_result' = NoOutcome
    /\ report' = NoOutcome
    /\ QuantumOnly

NextQuantumJobs ==
    \/ start_quantum_optimization
    \/ run_quantum_optimization
    \/ solve_qaoa
    \/ solve_classical
    \/ compare
    \/ run_quantum_optimization_end

SpecQuantumJobs == InitService /\ [][NextQuantumJobs]_vars

\* --------------------------------------------- factory_gym_env.FactoryEnv

\* What Unity does with one command.  "down": the connection or the send
\* fails; "silent": recv fails or yields nothing that parses to a non-empty
\* value; otherwise the JSON value received: a list, or an object with some
\* of the keys step() reads.  A state is "agents" (an object with agent
\* entries), "empty" (a falsy value) or absent; info is an object, null or
\* absent.
UnityReplies ==
    {[shape |-> "down"], [shape |-> "silent"], [shape |-> "list"]}
      \cup [shape : {"object"}, state : {"agents", "empty", "absent"},
            done : {"true", "false", "absent"}, info : {"object", "null", "absent"}]

\* a FactoryEnv after __init__
InitEnv ==
    /\ NoService
    /\ \E max_steps \in 0 .. MaxSteps :
         env = [constructed |-> TRUE, max_steps |-> max_steps, current_step |-> 0,
                connected |-> FALSE, state |-> "none", last_metrics |-> "none"]
    /\ step_calls = 0
    /\ returned = NoOutcome
    /\ num_tasks = 0
    /\ num_machines = 0
    /\ time_slots = 0
    /\ task_durations = <<>>
    /\ machine_capabilities = <<>>
    /\ task_dependencies = <<>>
    /\ qubo = NoOutcome
    /\ decoded = NoOutcome
    /\ measured = NoOutcome
    /\ pc = "idle"
    /\ quantum_result = NoOutcome
    /\ classical_result = NoOutcome
    /\ report = NoOutcome

\* self.connected after send_to_unity and receive_from_unity
Connected(reply) ==
    IF reply.shape = "down" THEN {FALSE}
    ELSE IF reply.shape = "silent" THEN {FALSE, TRUE}
    ELSE {TRUE}

\* _extract_observations: "ok", or the exception it raises; with agent
\* entries in the state it divides current_step by max_steps
ExtractObservations(state, current_step, max_steps) ==
    IF state = "agents" /\ max_steps = 0 THEN "ZeroDivisionError" ELSE "ok"

\* only the FactoryEnv is touched
EnvOnly == UNCHANGED <<problem, qubo, decoded, measured, run, service>>

\* FactoryEnv.reset
reset ==
    /\ env.constructed
    /\ step_calls' = 0
    /\ \E reply \in UnityReplies, connected \in BOOLEAN :
         /\ connected \in Connected(reply)
         /\ LET taken == reply.shape = "object" /\ reply.state # "absent"
                state == IF taken THEN reply.state ELSE env.state
                obs == IF taken /\ state = "agents"
                       THEN ExtractObservations(state, 0, env.max_steps)
                       ELSE "ok"
            IN /\ env' = [env EXCEPT !.current_step = 0, !.connected = connected,
                                     !.state = state]
               /\ returned' = IF obs = "ok"
                              THEN [kind |-> "returned", call |-> "reset"]
                              ELSE [kind |-> "raised", call |-> "reset", error |-> obs]
    /\ EnvOnly

\* FactoryEnv.step
step ==
    /\ env.constructed
    /\ step_calls < MaxStepCalls
    /\ step_calls' = step_calls + 1
    /\ \E reply \in UnityReplies, connected \in BOOLEAN :
         /\ connected \in Connected(reply)
         /\ LET current_step == env.current_step + 1
                object == reply.shape = "object"
                state == IF object /\ reply.state # "absent"
                         THEN reply.state ELSE env.state
                last_metrics == IF object THEN "empty" ELSE env.last_metrics
                done == (object /\ reply.done = "true")
                          \/ current_step >= env.max_steps
                obs == ExtractObservations(state, current_step, env.max_steps)
                error == IF reply.shape = "list" THEN "AttributeError"
                         ELSE IF obs # "ok" THEN obs
                         ELSE IF object /\ reply.info = "null" THEN "AttributeError"
                         ELSE "none"
            IN /\ env' = IF reply.shape = "list"
                         THEN [env EXCEPT !.current_step = current_step,
                                          !.connected = connected]
                         ELSE [env EXCEPT !.current_step = current_step,
                                          !.connected = connected,
                                          !.state = state,
                                          !.last_metrics = last_metrics]
               /\ returned' = IF error = "none"
                              THEN [kind |-> "returned", call |-> "step", done |-> done]
                              ELSE [kind |-> "raised", call |-> "step", error |-> error]
    /\ EnvOnly

NextEnv ==
    \/ reset
    \/ step

SpecEnv == InitEnv /\ [][NextEnv]_vars

\* ------------------------------------------------------------- properties

PositiveDims == num_tasks >= 1 /\ num_machines >= 1 /\ time_slots >= 1

\* C1: for positive dimensions the matrix create_qubo_matrix returns is
\* symmetric, Q[i][j] = Q[j][i] for all i, j.
QuboSymmetric ==
    (PositiveDims /\ qubo.kind = "matrix") =>
        \A i \in range(qubo.size), j \in range(qubo.size) :
            qubo.Q[<<i, j>>] = qubo.Q[<<j, i>>]

\* C2: for positive dimensions run_optimization_comparison propagates no
\* exception: it ends with a report, also when a decoded schedule is empty.
RunNeverRaises ==
    PositiveDims => (pc # "raised" /\ report.kind # "raised")

\* C3: the vector solve_qaoa hands to decode_solution is an assignment
\* vector with num_tasks * num_machines * time_slots entries.
QaoaVectorFullDimension ==
    (PositiveDims /\ pc = "solved_qaoa") =>
        (decoded.vector.present /\ Len(decoded.vector.x) = qubo_size)

\* C4: with a non-positive dimension create_qubo_matrix fails with
\* InvalidProblemSize and returns no matrix.
NonPositiveDimsRejected ==
    (~PositiveDims /\ qubo.kind # "none") =>
        (qubo.kind = "raised" /\ qubo.error = "InvalidProblemSize")

\* C5: the index formula, the same in the builder and in the decoder, maps
\* the valid (task, machine, time) triples one-to-one onto the row and column
\* indices 0 .. num_tasks * num_machines * time_slots - 1 of the matrix.
IndexBijection ==
    (PositiveDims /\ qubo.kind = "matrix") =>
        /\ \A tr \in Triples :
              /\ get_var_index(tr[1], tr[2], tr[3]) \in range(qubo.size)
              /\ decode_get_var_index(tr[1], tr[2], tr[3])
                   = get_var_index(tr[1], tr[2], tr[3])
        /\ qubo.size = num_tasks * num_machines * time_slots
        /\ \A i \in range(qubo.size) :
              Cardinality({tr \in Triples :
                              get_var_index(tr[1], tr[2], tr[3]) = i}) = 1

\* a matrix over two tasks, two machines and two time slots has been built
IndexBijectionWitness ==
    /\ num_tasks = 2 /\ num_machines = 2 /\ time_slots = 2
    /\ qubo.kind = "matrix"
    /\ qubo.size = 8

\* C6: the three deltas of the report are all the quantum value minus the
\* classical value.
DeltasQuantumMinusClassical ==
    report.kind = "report" =>
        LET q == report.quantum.metrics
            c == report.classical.metrics
        IN /\ report.comparison.quantum_advantage
                = q.objective_score - c.objective_score
           /\ report.comparison.efficiency_improvement = q.efficiency - c.efficiency
           /\ report.comparison.utilization_improvement
                = q.utilization - c.utilization

\* C7: without tasks the matrix is 0 x 0, the schedule decoded from the empty
\* vector has no task and only empty timelines, and it has no violation.
NoTasksEmptyEverything ==
    (num_tasks = 0 /\ num_machines >= 1 /\ time_slots >= 1) =>
        /\ qubo.kind # "none" =>
              (qubo.kind = "matrix" /\ qubo.size = 0 /\ DOMAIN qubo.Q = {})
        /\ (decoded.kind = "schedule" /\ decoded.vector.present) =>
              /\ decoded.vector.x = <<>>
              /\ DOMAIN decoded.schedule.tasks = {}
              /\ DOMAIN decoded.schedule.machines = range(num_machines)
              /\ \A m \in range(num_machines) : decoded.schedule.machines[m] = <<>>
              /\ check_constraints(decoded.schedule) = 0

\* the matrix has been built and the empty vector decoded, without tasks
NoTasksWitness ==
    /\ num_tasks = 0 /\ num_machines = 2 /\ time_slots = 3
    /\ qubo.kind = "matrix"
    /\ decoded.kind = "schedule"
    /\ decoded.vector = Given(<<>>)

\* a task no machine is capable of
Unschedulable(task) == ValidMachines(task) = {}

\* C8: a task without a capable machine is in no schedule decode_solution
\* returns, from a vector or from the random fallback.
UnschedulableOmitted ==
    (PositiveDims /\ decoded.kind = "schedule") =>
        \A task \in range(num_tasks) :
            Unschedulable(task) =>
                /\ task \notin DOMAIN decoded.schedule.tasks
                /\ \A m \in range(num_machines) :
                      \A k \in DOMAIN decoded.schedule.machines[m] :
                          decoded.schedule.machines[m][k].task # task

\* the vector is binary and of full dimension
BinaryFullDimension(v) ==
    /\ v.present
    /\ Len(v.x) = qubo_size
    /\ \A k \in DOMAIN v.x : v.x[k] \in {0, Unit}

\* C9: in a schedule decoded from a binary vector of full dimension every
\* task ends by time_slots, so the makespan is at most time_slots.
EndsWithinHorizon ==
    (PositiveDims /\ decoded.kind = "schedule"
        /\ BinaryFullDimension(decoded.vector)) =>
        /\ \A task \in DOMAIN decoded.schedule.tasks :
              decoded.schedule.tasks[task].end_time <= time_slots
        /\ measured.kind = "metrics" => measured.metrics.makespan <= time_slots

\* the timeline entries (machine, position) of a task
Entries(schedule, task) ==
    {e \in UNION {{<<m, k>> : k \in DOMAIN schedule.machines[m]} :
                    m \in DOMAIN schedule.machines} :
        schedule.machines[e[1]][e[2]].task = task}

\* C10: the schedule decoded from a vector of full dimension with entries in
\* [0, 1] holds every task once in 'tasks' and once in the timelines, on the
\* machine and with the start and end time 'tasks' records for it.
TasksAndTimelinesAgree ==
    (num_machines >= 1 /\ time_slots >= 1 /\ decoded.kind = "schedule"
        /\ decoded.vector.present /\ Len(decoded.vector.x) = qubo_size) =>
        /\ DOMAIN decoded.schedule.tasks = range(num_tasks)
        /\ \A task \in range(num_tasks) :
              LET info == decoded.schedule.tasks[task]
              IN /\ Cardinality(Entries(decoded.schedule, task)) = 1
                 /\ \A e \in Entries(decoded.schedule, task) :
                       /\ e[1] = info.machine
                       /\ decoded.schedule.machines[e[1]][e[2]].start_time
                            = info.start_time
                       /\ decoded.schedule.machines[e[1]][e[2]].end_time
                            = info.end_time

\* two tasks decoded onto one machine, the later task first in time, and
\* another vector with all entries of a task equal
TasksAndTimelinesAgreeWitness ==
    /\ num_tasks = 2 /\ num_machines = 2 /\ time_slots = 2
    /\ decoded.kind = "schedule"
    /\ decoded.vector.present
    /\ decoded.schedule.tasks[0].machine = 1
    /\ decoded.schedule.tasks[0].start_time = 1
    /\ decoded.schedule.tasks[1].machine = 1
    /\ decoded.schedule.tasks[1].start_time = 0
    /\ Len(decoded.schedule.machines[1]) = 2

\* C12: with positive dimensions the utilization calculate_metrics computes
\* for a schedule of decode_solution (random fallback included) lies in
\* [0, 1]: its numerator lies between 0 and num_machines * time_slots.
UtilizationWithinUnit ==
    (PositiveDims /\ measured.kind = "metrics") =>
        /\ 0 <= measured.metrics.utilization
        /\ measured.metrics.utilization <= num_machines * time_slots

\* the largest end time of a non-empty schedule
LatestEnd(schedule) ==
    CHOOSE e \in {schedule.tasks[task].end_time : task \in DOMAIN schedule.tasks} :
        \A task \in DOMAIN schedule.tasks : schedule.tasks[task].end_time <= e

\* C13: for a non-empty schedule of decode_solution (random fallback
\* included) the makespan is the largest end time, the efficiency is
\* (time_slots - makespan) / time_slots when makespan < time_slots and 0
\* otherwise, and it lies in [0, 1].
EfficiencyAsSpecified ==
    (/\ decoded.kind = "schedule"
     /\ DOMAIN decoded.schedule.tasks # {}
     /\ measured.kind = "metrics") =>
        LET makespan == LatestEnd(decoded.schedule)
            efficiency == measured.metrics.efficiency
        IN /\ measured.metrics.makespan = makespan
           /\ makespan < time_slots => efficiency = time_slots - makespan
           /\ makespan >= time_slots => efficiency = 0
           /\ 0 <= efficiency
           /\ efficiency <= max(0, time_slots)

\* two tasks measured, the later one ending one slot before the horizon
EfficiencyAsSpecifiedWitness ==
    /\ num_tasks = 2 /\ time_slots = 3
    /\ decoded.kind = "schedule"
    /\ DOMAIN decoded.schedule.tasks = {0, 1}
    /\ measured.kind = "metrics"
    /\ measured.metrics.makespan = 2
    /\ measured.metrics.efficiency = 1


\* the timeline positions <<machine, k>> of a schedule
Positions(schedule) ==
    UNION {{<<m, k>> : k \in DOMAIN schedule.machines[m]} :
              m \in DOMAIN schedule.machines}

\* the slots of the half-open interval [start_time, end_time) of an entry
Slots(entry) == entry.start_time .. (entry.end_time - 1)

\* the unordered pairs of distinct entries of one machine whose half-open
\* intervals have a slot in common
IntersectingPairs(schedule) ==
    {pair \in SUBSET Positions(schedule) :
        /\ Cardinality(pair) = 2
        /\ \A a \in pair, b \in pair :
             a # b =>
               /\ a[1] = b[1]
               /\ Slots(schedule.machines[a[1]][a[2]])
                    \cap Slots(schedule.machines[b[1]][b[2]]) # {}}

\* C14: the machine-overlap part of check_constraints is the number of
\* unordered pairs of distinct entries of one machine whose half-open
\* intervals intersect; a timeline of two overlapping entries gives 1, a
\* timeline of two entries that only touch gives 0.
OverlapCountsIntersectingPairs ==
    decoded.kind = "schedule" =>
        LET schedule == decoded.schedule
        IN /\ OverlapViolations(schedule) = Cardinality(IntersectingPairs(schedule))
           /\ \A m \in DOMAIN schedule.machines :
                Len(schedule.machines[m]) = 2 =>
                  LET first == schedule.machines[m][1]
                      second == schedule.machines[m][2]
                      others == SumOver(DOMAIN schedule.machines \ {m},
                                    [k \in DOMAIN schedule.machines |->
                                        Cardinality(Conflicts(schedule.machines[k]))])
                  IN /\ (first.end_time = second.start_time
                           \/ second.end_time = first.start_time)
                          => OverlapViolations(schedule) = others
                     /\ (first.start_time < second.end_time
                           /\ second.start_time < first.end_time)
                          => OverlapViolations(schedule) = others + 1

\* task 0 in [0, 2) and task 1 in [1, 2) on the one machine: one pair
OverlapCountsIntersectingPairsWitness ==
    /\ num_tasks = 2 /\ num_machines = 1 /\ time_slots = 3
    /\ decoded.kind = "schedule"
    /\ decoded.vector.present
    /\ DOMAIN decoded.schedule.tasks = {0, 1}
    /\ decoded.schedule.tasks[0].start_time = 0
    /\ decoded.schedule.tasks[0].end_time = 2
    /\ decoded.schedule.tasks[1].start_time = 1
    /\ decoded.schedule.tasks[1].end_time = 2
    /\ OverlapViolations(decoded.schedule) = 1

\* the precedence edges <<predecessor, dependent>> of the problem
PrecedenceEdges ==
    UNION {{<<task_dependencies[task][k], task>> : k \in DOMAIN task_dependencies[task]} :
              task \in DOMAIN task_dependencies}

\* the edges whose two tasks are scheduled, the predecessor ending after
\* the dependent starts
ViolatedEdges(schedule) ==
    {e \in PrecedenceEdges :
        /\ e[1] \in DOMAIN schedule.tasks
        /\ e[2] \in DOMAIN schedule.tasks
        /\ schedule.tasks[e[1]].end_time > schedule.tasks[e[2]].start_time}

\* C15: the precedence part of check_constraints is the number of edges with
\* both tasks scheduled and the predecessor's end time strictly greater than
\* the dependent's start time; an edge with an unscheduled endpoint or with
\* end = start counts 0, and a dependent that starts before its predecessor
\* ends makes the reported violations at least 1.
PrecedenceCountsViolatedEdges ==
    decoded.kind = "schedule" =>
        LET schedule == decoded.schedule
        IN /\ PrecedenceViolations(schedule) = Cardinality(ViolatedEdges(schedule))
           /\ \A e \in PrecedenceEdges :
                /\ (e[1] \notin DOMAIN schedule.tasks \/ e[2] \notin DOMAIN schedule.tasks)
                     => PrecedenceViolations(schedule)
                          = Cardinality(ViolatedEdges(schedule) \ {e})
                /\ (/\ e[1] \in DOMAIN schedule.tasks
                    /\ e[2] \in DOMAIN schedule.tasks
                    /\ schedule.tasks[e[1]].end_time = schedule.tasks[e[2]].start_time)
                     => PrecedenceViolations(schedule)
                          = Cardinality(ViolatedEdges(schedule) \ {e})
                /\ (/\ e[1] \in DOMAIN schedule.tasks
                    /\ e[2] \in DOMAIN schedule.tasks
                    /\ schedule.tasks[e[2]].start_time < schedule.tasks[e[1]].end_time
                    /\ measured.kind = "metrics")
                     => measured.metrics.constraint_violations >= 1

\* task 1 on its own machine starts at 0, before task 0 ends at 2
PrecedenceCountsViolatedEdgesWitness ==
    /\ num_tasks = 2 /\ num_machines = 2
    /\ decoded.kind = "schedule"
    /\ DOMAIN decoded.schedule.tasks = {0, 1}
    /\ decoded.schedule.tasks[0].machine = 0
    /\ decoded.schedule.tasks[0].end_time = 2
    /\ decoded.schedule.tasks[1].machine = 1
    /\ decoded.schedule.tasks[1].start_time = 0
    /\ PrecedenceViolations(decoded.schedule) = 1
    /\ measured.kind = "metrics"
    /\ measured.metrics.constraint_violations = 1


\* the scheduled tasks whose machine does not list them
IncapableTasks(schedule) ==
    {task \in DOMAIN schedule.tasks :
        \A m \in DOMAIN machine_capabilities :
            m = schedule.tasks[task].machine => task \notin machine_capabilities[m]}

\* C16: the count check_constraints returns is a non-negative integer, the
\* sum of three counts taken independently of each other: tasks on a machine
\* lacking their capability, violated precedence edges and intersecting
\* pairs of one machine; a task in all three categories counts in each.
ViolationsAreSumOfThreeCounts ==
    (decoded.kind = "schedule" /\ measured.kind = "metrics"
       /\ DOMAIN decoded.schedule.tasks # {}) =>
        LET schedule == decoded.schedule
            violations == measured.metrics.constraint_violations
        IN /\ violations \in Nat
           /\ violations = check_constraints(schedule)
           /\ violations = Cardinality(IncapableTasks(schedule))
                             + Cardinality(ViolatedEdges(schedule))
                             + Cardinality(IntersectingPairs(schedule))

\* task 1 on machine 0, which lacks it, in [0, 1) while its predecessor
\* task 0 holds the same machine in [0, 2): three violations
ViolationsAreSumOfThreeCountsWitness ==
    /\ num_tasks = 2
    /\ decoded.kind = "schedule"
    /\ DOMAIN decoded.schedule.tasks = {0, 1}
    /\ decoded.schedule.tasks[0].machine = 0
    /\ decoded.schedule.tasks[0].start_time = 0
    /\ decoded.schedule.tasks[1].machine = 0
    /\ decoded.schedule.tasks[1].start_time = 0
    /\ IncapableTasks(decoded.schedule) = {1}
    /\ ViolatedEdges(decoded.schedule) = {<<0, 1>>}
    /\ Cardinality(IntersectingPairs(decoded.schedule)) = 1
    /\ measured.kind = "metrics"
    /\ measured.metrics.constraint_violations = 3

\* the orderings of the entries of one timeline
Permuted(timeline) ==
    {[k \in DOMAIN timeline |-> timeline[f[k]]] :
        f \in {g \in [DOMAIN timeline -> DOMAIN timeline] :
                  \A a \in DOMAIN timeline, b \in DOMAIN timeline :
                      g[a] = g[b] => a = b}}

RECURSIVE TimelineOrders(_, _)
\* one ordering of the timeline of each of these machines
TimelineOrders(schedule, machines) ==
    IF machines = {} THEN {<<>>}
    ELSE LET m == CHOOSE x \in machines : TRUE
         IN {rest @@ (m :> timeline) :
                rest \in TimelineOrders(schedule, machines \ {m}),
                timeline \in Permuted(schedule.machines[m])}

\* the schedules that differ from this one only in the order of the entries
\* inside the machine timelines
Reordered(schedule) ==
    {[schedule EXCEPT !.machines = ms] :
        ms \in TimelineOrders(schedule, DOMAIN schedule.machines)}

\* C17: check_constraints returns the same count under every permutation of
\* the entries inside each machine's timeline.
ViolationsIgnoreTimelineOrder ==
    decoded.kind = "schedule" =>
        \A other \in Reordered(decoded.schedule) :
            check_constraints(other) = check_constraints(decoded.schedule)

\* two entries on machine 0 that touch, so that the reversed timeline is
\* another list whose later entry starts before its earlier entry ends
ViolationsIgnoreTimelineOrderWitness ==
    /\ decoded.kind = "schedule"
    /\ num_machines = 2
    /\ Len(decoded.schedule.machines[0]) = 2
    /\ decoded.schedule.machines[0][1].end_time
         = decoded.schedule.machines[0][2].start_time
    /\ Cardinality(Reordered(decoded.schedule)) = 2
    /\ OverlapViolations(decoded.schedule) = 0


\* C11: every schedule decode_solution returns, the random one for an absent
\* vector included, has each machine's timeline in non-decreasing order of
\* start time.
TimelinesSortedByStart ==
    decoded.kind = "schedule" =>
        \A m \in DOMAIN decoded.schedule.machines :
            \A k \in 1 .. (Len(decoded.schedule.machines[m]) - 1) :
                decoded.schedule.machines[m][k].start_time
                  <= decoded.schedule.machines[m][k + 1].start_time

\* the machines whose capabilities list holds the task
Owners(task) == {m \in DOMAIN machine_capabilities : task \in machine_capabilities[m]}

PrecedenceChainsInBlocks ==
    pc = "ready" =>
        /\ DOMAIN task_dependencies = {i \in range(num_tasks) : i % 4 # 0}
        /\ \A i \in DOMAIN task_dependencies : task_dependencies[i] = <<i - 1>>
        /\ \A e \in PrecedenceEdges :
             /\ e[1] < e[2]
             /\ e[1] \div 4 = e[2] \div 4
        /\ \A i \in range(num_tasks) :
             Cardinality({e \in PrecedenceEdges : e[2] = i}) <= 1
        /\ \A S \in SUBSET range(num_tasks) :
             S # {} => \E i \in S : \A e \in PrecedenceEdges : e[2] = i => e[1] \notin S

\* six tasks: the second block starts at task 4, and task 5 follows it
PrecedenceChainsInBlocksWitness ==
    /\ pc = "ready"
    /\ num_tasks = 6
    /\ 4 \notin DOMAIN task_dependencies
    /\ task_dependencies[5] = <<4>>
    /\ task_dependencies[3] = <<2>>


TaskVariables(task) ==
    {get_var_index(task, m, t) : m \in range(num_machines), t \in range(time_slots)}

\* x^T Q x, times QScale, for the binary x whose ones are at the indices S
AssignmentCost(S) ==
    SumOver(S, [i \in S |-> qubo.Q[<<i, i>>]])
      + SumOver({p \in S \X S : p[1] # p[2]}, [p \in S \X S |-> qubo.Q[p]])

\* C21: for every task, all other variables being 0, a binary assignment
\* with two or more of the task's variables set costs strictly more than the
\* cheapest assignment with exactly one set, and that one costs strictly
\* less than setting none.
OneHotIncentive ==
    (PositiveDims /\ qubo.kind = "matrix") =>
        \A task \in range(num_tasks) :
            LET singles == {AssignmentCost({i}) : i \in TaskVariables(task)}
                cheapest == CHOOSE c \in singles : \A e \in singles : c <= e
            IN /\ cheapest < AssignmentCost({})
               /\ \A S \in SUBSET TaskVariables(task) :
                    Cardinality(S) >= 2 => AssignmentCost(S) > cheapest

\* the diagonal entry of a variable, times QScale
Diagonal(task, machine, time) ==
    qubo.Q[<<get_var_index(task, machine, time), get_var_index(task, machine, time)>>]

\* the starts of a run of the task that fits the horizon and covers the slot
CoveringStarts(task, time) ==
    {start \in 0 .. (time_slots - task_durations[task]) :
        start <= time /\ time < start + task_durations[task]}

\* C24: the duration reward -12/duration is added on the diagonal exactly
\* for the (task, machine, start) with the machine capable of the task and
\* start + duration <= time_slots; a variable of a machine lacking the
\* capability carries the one-hot, capability and earliness terms only.
DurationRewardOnlyWhereCapable ==
    (PositiveDims /\ qubo.kind = "matrix") =>
        \A task \in range(num_tasks), m \in range(num_machines), t \in range(time_slots) :
            Diagonal(task, m, t) =
                IF task \in machine_capabilities[m]
                THEN t - 10 * time_slots
                       - Cardinality(CoveringStarts(task, t))
                           * (12 \div task_durations[task]) * time_slots
                ELSE t - 10 * time_slots + 15 * time_slots

\* C25: the entry from a variable (p, m1, t1) to a variable (d, m2, t2) of
\* another task is -20 exactly when p is the direct predecessor of d and
\* t2 >= t1 + duration(p), whatever m1 and m2, and 0 otherwise; the entry
\* between two distinct variables of one task is +10.
PrecedenceRewardEntries ==
    (PositiveDims /\ qubo.kind = "matrix") =>
        \A a \in Triples, b \in Triples :
            LET entry == qubo.Q[<<get_var_index(a[1], a[2], a[3]),
                                  get_var_index(b[1], b[2], b[3])>>]
            IN /\ (a[1] = b[1] /\ a # b) => entry = 10 * time_slots
               /\ (a[1] # b[1] /\ <<a[1], b[1]>> \in PrecedenceEdges
                     /\ b[3] >= a[3] + task_durations[a[1]])
                    => entry = 0 - 20 * time_slots
               /\ (a[1] # b[1] /\ ~(<<a[1], b[1]>> \in PrecedenceEdges
                                      /\ b[3] >= a[3] + task_durations[a[1]]))
                    => entry = 0

\* two tasks on two machines and three slots: task 0 lasts 2, and the entry
\* from (0, machine 0, time 0) to (1, machine 1, time 2) is rewarded
PrecedenceRewardEntriesWitness ==
    /\ num_tasks = 2 /\ num_machines = 2 /\ time_slots = 3
    /\ task_durations[0] = 2
    /\ qubo.kind = "matrix"
    /\ qubo.Q[<<get_var_index(0, 0, 0), get_var_index(1, 1, 2)>>] = 0 - 20 * time_slots
    /\ qubo.Q[<<get_var_index(1, 1, 2), get_var_index(0, 0, 0)>>] = 0

\* C26: for every task the diagonal entry of a variable on a machine lacking
\* the capability is strictly greater than the diagonal entry of a variable
\* on a capable machine, at any two time slots.
IncapableCostsMore ==
    (PositiveDims /\ qubo.kind = "matrix") =>
        \A task \in range(num_tasks) :
            \A lacking \in range(num_machines), capable \in range(num_machines) :
                (task \notin machine_capabilities[lacking]
                   /\ task \in machine_capabilities[capable]) =>
                    \A t1 \in range(time_slots), t2 \in range(time_slots) :
                        Diagonal(task, lacking, t1) > Diagonal(task, capable, t2)

\* task 0 lasts 2 of 3 slots: machine 1 lacks it and its middle slot holds
\* the duration reward twice, machine 0 has it and its first slot holds it once
IncapableCostsMoreWitness ==
    /\ num_tasks = 1 /\ num_machines = 2 /\ time_slots = 3
    /\ task_durations[0] = 2
    /\ qubo.kind = "matrix"
    /\ 0 \notin machine_capabilities[1]
    /\ Diagonal(0, 1, 1) = Diagonal(0, 0, 0) + 9 * time_slots + 1

\* C27: for every task and machine the diagonal entry at time t is strictly
\* smaller than the one at time t + 1.
EarlierSlotCheaper ==
    (PositiveDims /\ qubo.kind = "matrix") =>
        \A task \in range(num_tasks), m \in range(num_machines) :
            \A t \in range(time_slots - 1) :
                Diagonal(task, m, t) < Diagonal(task, m, t + 1)


\* the entry of the decoded vector for (task, machine, time)
EntryOf(task, machine, time) ==
    decoded.vector.x[task * num_machines * time_slots + machine * time_slots + time + 1]

\* C22: from a binary vector of full dimension decode_solution gives each
\* task the (machine, time) pair with the largest entry among the task's
\* entries, the first such pair in machine-major, time-minor order (machine
\* 0, time 0 when all are 0), with start = time, end = time + duration and
\* duration = duration(task).
DecodesFirstLargestEntry ==
    (PositiveDims /\ decoded.kind = "schedule"
        /\ BinaryFullDimension(decoded.vector)) =>
        \A task \in range(num_tasks) :
            /\ task \in DOMAIN decoded.schedule.tasks
            /\ LET chosen == decoded.schedule.tasks[task]
                   best == EntryOf(task, chosen.machine, chosen.start_time)
               IN /\ chosen.machine \in range(num_machines)
                  /\ chosen.start_time \in range(time_slots)
                  /\ \A m \in range(num_machines), t \in range(time_slots) :
                       /\ EntryOf(task, m, t) <= best
                       /\ (m < chosen.machine
                             \/ (m = chosen.machine /\ t < chosen.start_time))
                            => EntryOf(task, m, t) < best
                  /\ chosen.duration = task_durations[task]
                  /\ chosen.end_time = chosen.start_time + task_durations[task]

\* task 0 has ones at (machine 0, time 1) and (machine 1, time 0) and takes
\* the first; task 1 has no one and goes to machine 0 at time 0
DecodesFirstLargestEntryWitness ==
    /\ num_tasks = 2 /\ num_machines = 2 /\ time_slots = 2
    /\ decoded.kind = "schedule"
    /\ BinaryFullDimension(decoded.vector)
    /\ decoded.vector.x = <<0, Unit, Unit, 0, 0, 0, 0, 0>>
    /\ decoded.schedule.tasks[0].machine = 0
    /\ decoded.schedule.tasks[0].start_time = 1
    /\ decoded.schedule.tasks[1].machine = 0
    /\ decoded.schedule.tasks[1].start_time = 0


\* the start times the random schedule of the constructed scheduler can give
\* a task
PossibleStarts(task) ==
    {schedule.tasks[task].start_time : schedule \in RandomSchedules}

\* C23: for an absent vector every task with a capable machine is placed on
\* one of its capable machines, and its possible start times are exactly the
\* integers of [0, time_slots - duration], time_slots - duration included,
\* or 0 alone when duration >= time_slots.
FallbackStartsCoverRange ==
    (pc = "ready" /\ decoded = NoOutcome /\ PositiveDims) =>
        \A task \in range(num_tasks) :
            Owners(task) # {} =>
                /\ \A schedule \in RandomSchedules :
                     /\ task \in DOMAIN schedule.tasks
                     /\ schedule.tasks[task].machine \in Owners(task)
                /\ PossibleStarts(task) =
                     0 .. max(0, time_slots - task_durations[task])


\* C28: once DELETE /training/jobs/{job_id} has set a job's status to
\* 'stopped', no later step changes the status or advances
\* current_iteration, whatever the interleaving with run_training.
StoppedStaysStopped ==
    [][\A job_id \in DOMAIN training_jobs :
          training_jobs[job_id].status = "stopped" =>
              /\ training_jobs'[job_id].status = "stopped"
              /\ training_jobs'[job_id].current_iteration
                   = training_jobs[job_id].current_iteration]_vars


\* the changes of status a quantum job may make in one step
QuantumStatusSteps ==
    {<<"starting", "running">>, <<"running", "completed">>, <<"running", "failed">>}

\* C29: a quantum job moves 'starting' -> 'running' -> 'completed' or
\* 'failed' and never leaves 'completed' or 'failed'; 'result' is non-null
\* exactly when the status is 'completed', 'error' is present exactly when it
\* is 'failed', and no entry leaves the registry.
QuantumJobLifecycle ==
    /\ [](\A job_id \in DOMAIN quantum_jobs :
            LET job == quantum_jobs[job_id]
            IN /\ job.status \in {"starting", "running", "completed", "failed"}
               /\ job.result # NoOutcome <=> job.status = "completed"
               /\ "error" \in DOMAIN job <=> job.status = "failed")
    /\ [][\A job_id \in DOMAIN quantum_jobs :
            /\ job_id \in DOMAIN quantum_jobs'
            /\ \/ quantum_jobs'[job_id].status = quantum_jobs[job_id].status
               \/ <<quantum_jobs[job_id].status, quantum_jobs'[job_id].status>>
                    \in QuantumStatusSteps]_vars

\* one job has completed with a result, another has failed with its error
QuantumJobLifecycleWitness ==
    /\ DOMAIN quantum_jobs = {1, 2}
    /\ quantum_jobs[1].status = "completed"
    /\ quantum_jobs[1].result.quantum_efficiency = 1
    /\ quantum_jobs[2].status = "failed"
    /\ quantum_jobs[2].error = "ValueError"
    /\ quantum_jobs[2].result = NoOutcome


\* C30: current_step is the number of step() calls since the last reset(),
\* and a step() call that leaves current_step >= max_steps returns
\* done = True, whatever Unity replies and when Unity cannot be reached.
StepCountsAndEpisodeEnds ==
    env.constructed =>
        /\ env.current_step = step_calls
        /\ (returned.kind # "none" /\ returned.call = "step"
              /\ env.current_step >= env.max_steps)
             => (returned.kind = "returned" /\ returned.done)

=============================================================================
